---- MODULE Spec2Model ----
(***************************************************************************)
(* BlendingToolKit: catalog loading, selection cuts and blend sampling     *)
(* (src/btk/get_input_catalog.py, src/btk/utils.py), the measurement and   *)
(* metric classes and the detection efficiency matrix of src/btk/utils.py, *)
(* together with the batch and draw generators exercised by                *)
(* src/tests/test_draw.py.                                                 *)
(*                                                                         *)
(* Numbers.  Magnitudes are integers in tenths of a magnitude, galaxy      *)
(* sizes a_d, a_b are integers in tenths of an arcsec, fluxes are small    *)
(* naturals.  Positions and shifts are exact numbers n/d * sqrt(r), kept   *)
(* as records [n, d, r] with d > 0 and r >= 1, so that the mean, the       *)
(* degree-to-arcsec conversion and the square root of the number of        *)
(* objects are computed exactly as the code computes them.                 *)
(***************************************************************************)
EXTENDS Integers, Sequences, FiniteSets, TLC

VARIABLES
    Args,        \* the parameter object handed to every function
    file,        \* the file stored under Args.catalog_name: [format, rows]
    wld_catalog, \* the table stored under Args.wld_catalog_name
    catalog,     \* the catalog handed to the sampling functions
    pc,          \* position of the caller
    call,        \* the call made last: function name and its arguments
    ret,         \* what the call returned (or the exception it raised)
    shift_calls, \* arguments of each call of get_random_center_shift
    blend_list,  \* blend generator: blend catalogs of the batch so far
    pool,        \* draw generator: state of the rendering of one batch
    meas_generator  \* measurement generator: its batches and its position

vars == <<Args, file, wld_catalog, catalog, pc, call, ret, shift_calls,
          blend_list, pool, meas_generator>>

(***************************************************************************)
(* Bounds of the model.                                                    *)
(***************************************************************************)
MaxCatalogLen == 2     \* rows of an input catalog
MaxNumber == 2         \* largest Args.max_number (2 is the default)
MaxEnumShifts == 2     \* longest shift array drawn element by element
MaxShiftNumber == 38   \* largest Args.max_number where only the shift is studied
MaxWldRows == 5        \* galaxies listed in the pre-run WLD catalog
MaxBatch == 2          \* blends of the batch rendered by the pool
MaxCpus == 2           \* worker processes of the pool
MaxSummaryRows == 3    \* rows of a detection summary table
MaxMeasBatches == 2    \* batches taken from the measurement generator

(***************************************************************************)
(* Exact numbers  n/d * sqrt(r).                                           *)
(***************************************************************************)
Abs(x) == IF x < 0 THEN -x ELSE x

RECURSIVE Gcd(_, _)
Gcd(a, b) == IF b = 0 THEN a ELSE Gcd(b, a % b)

Num(n, d, r) ==
    IF n = 0 THEN [n |-> 0, d |-> 1, r |-> 1]
    ELSE LET g == Gcd(Abs(n), Abs(d))
             s == IF d < 0 THEN -1 ELSE 1
         IN [n |-> s * (n \div g), d |-> s * (d \div g), r |-> r]

Rat(n, d) == Num(n, d, 1)
Zero == Rat(0, 1)

NumNeg(a) == Num(-a.n, a.d, a.r)

\* a + b: the operands share the radicand unless one of them is 0
NumAdd(a, b) ==
    IF a.n = 0 THEN b
    ELSE IF b.n = 0 THEN a
    ELSE Num(a.n * b.d + b.n * a.d, a.d * b.d, a.r)

NumSub(a, b) == NumAdd(a, NumNeg(b))
NumMulInt(a, k) == Num(a.n * k, a.d, a.r)
NumDivInt(a, k) == Num(a.n, a.d * k, a.r)

\* a ** 0.5 of a natural k, times a rational
NumTimesSqrt(a, k) == IF k = 0 THEN Zero ELSE Num(a.n, a.d, k)

\* a < b, a <= b for a >= 0 and a rational b: compared through the squares
\* |a| < |b|, through the squares
NumSqLess(a, b) ==
    a.n * a.n * a.r * b.d * b.d < b.n * b.n * b.r * a.d * a.d
\* np.abs(a) < b and np.abs(a) <= b
NumAbsLess(a, b) == b.n > 0 /\ NumSqLess(a, b)
NumAbsLeq(a, b) == b.n >= 0 /\ ~ NumSqLess(b, a)

(***************************************************************************)
(* Tables.  A table is a sequence of rows; table[index array] keeps the    *)
(* rows at the indices, in the order of the index array.                   *)
(***************************************************************************)
RECURSIVE where(_, _, _)
\* np.where(cond): the indices at which cond holds, ascending
where(table, cond(_), i) ==
    IF i > Len(table) THEN <<>>
    ELSE (IF cond(table[i]) THEN <<i>> ELSE <<>>) \o where(table, cond, i + 1)

take(table, idx) == [k \in 1..Len(idx) |-> table[idx[k]]]

Range(s) == {s[k] : k \in 1..Len(s)}

RECURSIVE SeqOfSet(_)
SeqOfSet(S) ==
    IF S = {} THEN <<>>
    ELSE LET m == CHOOSE x \in S : \A y \in S : x <= y
         IN <<m>> \o SeqOfSet(S \ {m})

(***************************************************************************)
(* Input catalogs.  A row holds the CatSim columns the code reads.         *)
(* ra and dec are given in arcsec and stored in degrees.                   *)
(***************************************************************************)
Row(id, i_ab, a_d, a_b, fd, fb, ra, dec) ==
    [galtileid |-> id, i_ab |-> i_ab, a_d |-> a_d, a_b |-> a_b,
     fluxnorm_disk |-> fd, fluxnorm_bulge |-> fb,
     ra |-> Rat(ra, 3600), dec |-> Rat(dec, 3600)]

SampleRows ==
    << Row(1, 230, 5, 3, 1, 1, 0, 0),      \* bright, small
       Row(2, 250, 3, 0, 1, 0, 2, 0),      \* 24 < i <= 25.3
       Row(3, 265, 4, 2, 1, 1, 4, 2),      \* 25.3 < i < 27
       Row(4, 270, 3, 3, 1, 1, 30, 0),     \* i = 27
       Row(5, 240, 8, 0, 1, 0, -30, 0),    \* r_sec = 3.728
       Row(6, 235, 25, 0, 1, 0, 1, -1),    \* hypot(a_d, a_b) = 2.5, r_sec > 4
       Row(7, 285, 4, 2, 1, 1, 0, 40),     \* i >= 28
       Row(8, 230, 5, 3, 0, 0, 3, 1) >>    \* no flux: f is 0/0

\* the catalogs of at most MaxCatalogLen rows, rows in the order of SampleRows
Catalogs ==
    {take(SampleRows, SeqOfSet(S)) :
        S \in {T \in SUBSET (1..Len(SampleRows)) : Cardinality(T) <= MaxCatalogLen}}

(***************************************************************************)
(* src/btk/utils.py: basic_selection_function                              *)
(***************************************************************************)
\* r_sec <= 4, with f = fluxnorm_bulge / (fluxnorm_disk + fluxnorm_bulge) and
\* r_sec = hypot(a_d * (1-f)**0.5 * 4.66, a_b * f**0.5 * 1.46).  In tenths of
\* an arcsec and hundredths of the factors,
\*   r_sec^2 = (a_d^2 * 466^2 * fd + a_b^2 * 146^2 * fb) / (10^6 * (fd + fb)).
\* With fd + fb = 0, f is nan and every comparison with r_sec is False.
r_sec_sq_num(row) ==
    row.a_d * row.a_d * 466 * 466 * row.fluxnorm_disk
        + row.a_b * row.a_b * 146 * 146 * row.fluxnorm_bulge

r_sec_sq_den(row) == 1000000 * (row.fluxnorm_disk + row.fluxnorm_bulge)

r_sec_is_nan(row) == row.fluxnorm_disk + row.fluxnorm_bulge = 0

\* (r_sec <= 4) & (catalog['i_ab'] <= 27)
selection_cond(row) ==
    /\ ~ r_sec_is_nan(row)
    /\ r_sec_sq_num(row) <= 4 * 4 * r_sec_sq_den(row)
    /\ row.i_ab <= 270

basic_selection_function(table) == take(table, where(table, selection_cond, 1))

(***************************************************************************)
(* src/btk/get_input_catalog.py: load_catalog                              *)
(***************************************************************************)
\* catalog names, one character per element
CatalogNames ==
    { <<"c", ".", "f", "i", "t", "s">>,
      <<"c", ".", "c", "s", "v">>,
      <<"c">>,
      <<".", "f", "i", "t", "s">>,
      <<"c", ".", "f", "i", "t", "s", ".", "g", "z">>,
      <<"d", ".", "f", "i", "t", "s", "/", "c">>,
      <<"c", ".", "F", "I", "T", "S">> }

\* str.rfind: the last index of ch in p, 0 when there is none
rfind(p, ch) ==
    LET at == {k \in 1..Len(p) : p[k] = ch}
    IN IF at = {} THEN 0 ELSE CHOOSE k \in at : \A j \in at : j <= k

\* os.path.splitext: the extension starts at the last dot of the last path
\* component, leading dots of the component not counted
splitext(p) ==
    LET sepIndex == rfind(p, "/")
        dotIndex == rfind(p, ".")
    IN IF dotIndex > sepIndex
          /\ \E k \in (sepIndex + 1)..(dotIndex - 1) : p[k] # "."
       THEN <<SubSeq(p, 1, dotIndex - 1), SubSeq(p, dotIndex, Len(p))>>
       ELSE <<p, <<>>>>

FitsExt == <<".", "f", "i", "t", "s">>

\* the format handed to astropy.table.Table.read
read_format(name) ==
    IF splitext(name)[2] = FitsExt THEN "fits" ELSE "ascii.basic"

\* astropy.table.Table.read: the rows of the file when it is of that format
Table_read(f, format) ==
    IF f.format = format THEN [ok |-> TRUE, val |-> f.rows]
    ELSE [ok |-> FALSE, val |-> "ReadError"]

SelectionFunctions == {"None", "basic_selection_function", "first_row"}

\* selection_function(table), for the selection functions of the model
apply_selection(selection_function, table) ==
    IF selection_function = "basic_selection_function"
    THEN basic_selection_function(table)
    ELSE IF table = <<>> THEN <<>> ELSE <<table[1]>>

\* load_catalog without the call of selection_function
load_catalog_mut(A, f, selection_function) ==
    LET table == Table_read(f, read_format(A.catalog_name))
    IN IF ~ table.ok THEN table ELSE [ok |-> TRUE, val |-> table.val]

\* load_catalog(Args, selection_function), f being the file under the name
load_catalog(A, f, selection_function) ==
    LET table == Table_read(f, read_format(A.catalog_name))
    IN IF ~ table.ok THEN table
       ELSE IF selection_function # "None"
       THEN [ok |-> TRUE, val |-> apply_selection(selection_function, table.val)]
       ELSE [ok |-> TRUE, val |-> table.val]

NoCall == [name |-> "none"]
NoRet == [ok |-> FALSE, val |-> "none"]
NoPool == [tasks |-> <<>>]
NoGenerator == [batches |-> <<>>, pos |-> 0]

\* Args as btk.config.Simulation_params builds it, for the fields read here
ArgsOf(name, verbose, max_number, stamp_size, batch_size) ==
    [catalog_name |-> name, verbose |-> verbose, max_number |-> max_number,
     stamp_size |-> stamp_size, batch_size |-> batch_size,
     pixel_scale |-> Rat(2, 10)]

InitCatalog ==
    /\ \E name \in CatalogNames, verbose \in BOOLEAN :
           Args = ArgsOf(name, verbose, 2, 24, 8)
    /\ file \in [format : {"fits", "ascii.basic"}, rows : Catalogs]
    /\ wld_catalog = <<>>
    /\ catalog = <<>>
    /\ pc = "start"
    /\ call = NoCall
    /\ ret = NoRet
    /\ shift_calls = <<>>
    /\ meas_generator = NoGenerator
    /\ blend_list = <<>>
    /\ pool = NoPool

LoadCatalog ==
    /\ pc = "start"
    /\ \E selection_function \in SelectionFunctions :
          /\ call' = [name |-> "load_catalog",
                      selection_function |-> selection_function,
                      format |-> read_format(Args.catalog_name)]
          /\ ret' = load_catalog(Args, file, selection_function)
    /\ pc' = IF ret'.ok THEN "returned" ELSE "raised"
    /\ catalog' = IF ret'.ok THEN ret'.val ELSE catalog
    /\ UNCHANGED <<Args, file, wld_catalog, shift_calls, blend_list, pool,
                   meas_generator>>

NextCatalog == LoadCatalog

SpecCatalog == InitCatalog /\ [][NextCatalog]_vars

(***************************************************************************)
(* Claims on load_catalog and basic_selection_function.                    *)
(***************************************************************************)
\* C1: load_catalog returns selection_function(table) when a selection
\* function is supplied and the table as read otherwise, the table being read
\* as FITS when the extension of Args.catalog_name is '.fits' and as a basic
\* ASCII table for every other extension.
C1_LoadCatalog ==
    call.name = "load_catalog" =>
        /\ call.format = (IF splitext(Args.catalog_name)[2] = FitsExt
                          THEN "fits" ELSE "ascii.basic")
        /\ pc = "returned" =>
              /\ file.format = call.format
              /\ ret.val = (IF call.selection_function = "None" THEN file.rows
                            ELSE apply_selection(call.selection_function,
                                                 file.rows))

C1_Witness ==
    /\ pc = "returned"
    /\ call.name = "load_catalog"
    /\ call.selection_function = "basic_selection_function"
    /\ call.format = "fits"
    /\ Len(file.rows) = 2
    /\ Len(ret.val) = 1

\* the cuts as the claim states them: i_ab < 27 and r_sec < 3
C5_claimed_cond(row) ==
    /\ ~ r_sec_is_nan(row)
    /\ r_sec_sq_num(row) < 3 * 3 * r_sec_sq_den(row)
    /\ row.i_ab < 270

\* C5: basic_selection_function returns exactly the rows with i band
\* magnitude less than 27 and second moment size r_sec less than 3 arcsec, in
\* their original order.
C5_SelectionCuts ==
    (/\ pc = "returned"
     /\ call.name = "load_catalog"
     /\ call.selection_function = "basic_selection_function")
    => ret.val = take(file.rows, where(file.rows, C5_claimed_cond, 1))

(***************************************************************************)
(* btk.create_blend_generator.get_random_center_shift                      *)
(***************************************************************************)
\* the values a shift is drawn from, of the interval [-maxshift, maxshift):
\* its lower end and the middle of its upper half
ShiftValues(maxshift) == {NumNeg(maxshift), NumDivInt(maxshift, 2)}

\* the arrays of `number` shifts; arrays longer than MaxEnumShifts are drawn
\* among the constant ones
ShiftArrays(number, maxshift) ==
    IF number <= MaxEnumShifts
    THEN [1..number -> ShiftValues(maxshift)]
    ELSE {[k \in 1..number |-> v] : v \in ShiftValues(maxshift)}

\* the (dx, dy) pairs get_random_center_shift(Args, number, maxshift) returns
get_random_center_shift(A, number, maxshift) ==
    ShiftArrays(number, maxshift) \X ShiftArrays(number, maxshift)

(***************************************************************************)
(* src/btk/utils.py: basic_sampling_function                               *)
(***************************************************************************)
\* a = hypot(a_d, a_b); cond = (a <= 2) & (a > 0.2)
cond(row) ==
    LET a_sq == row.a_d * row.a_d + row.a_b * row.a_b
    IN a_sq <= 20 * 20 /\ a_sq > 2 * 2

\* np.random.randint with the upper end included
randint_mut(low, high) == low..high

\* np.random.randint(low, high): low <= value < high
randint(low, high) == low..(high - 1)

\* q_bright with the cut of q
q_bright_cond_mut(row) == cond(row) /\ row.i_ab <= 253

\* cond & (catalog['i_ab'] <= 24)
q_bright_cond(row) == cond(row) /\ row.i_ab <= 240

\* random() >= 0.9: cond & (i_ab < 28); otherwise cond & (i_ab <= 25.3)
q_faint_cond(row) == cond(row) /\ row.i_ab < 280
q_cond(row) == cond(row) /\ row.i_ab <= 253

\* maxshift = Args.stamp_size/30.*number_of_objects**0.5
basic_maxshift(A, number_of_objects) ==
    NumTimesSqrt(Rat(A.stamp_size, 30), number_of_objects)

\* blend_catalog with the shifts added to the ra and dec of the catalog
basic_blend_mut(cat, first, rest, dx, dy) ==
    LET stacked == <<cat[first]>> \o take(cat, rest)
    IN [k \in 1..Len(stacked) |->
           [stacked[k] EXCEPT !.ra = NumAdd(stacked[k].ra, dx[k]),
                              !.dec = NumAdd(stacked[k].dec, dy[k])]]

\* blend_catalog after vstack, ra = dec = 0, ra += dx, dec += dy
basic_blend(cat, first, rest, dx, dy) ==
    LET stacked == <<cat[first]>> \o take(cat, rest)
    IN [k \in 1..Len(stacked) |->
           [stacked[k] EXCEPT !.ra = NumAdd(Zero, dx[k]),
                              !.dec = NumAdd(Zero, dy[k])]]

\* every outcome of basic_sampling_function(Args, catalog), one per outcome
\* of the random draws
basic_sampling_function(A, cat) ==
    LET q_bright == where(cat, q_bright_cond, 1)
        q(faint) == IF faint THEN where(cat, q_faint_cond, 1)
                    ELSE where(cat, q_cond, 1)
        draws(number_of_objects, faint) ==
            LET maxshift == basic_maxshift(A, number_of_objects)
            IN { [ok |-> TRUE,
                  val |-> basic_blend(cat, first, rest, d[1], d[2]),
                  number_of_objects |-> number_of_objects,
                  shift_calls |-> << [number |-> number_of_objects + 1,
                                      maxshift |-> maxshift] >>,
                  dx |-> d[1], dy |-> d[2]] :
                 first \in Range(q_bright),
                 rest \in [1..number_of_objects -> Range(q(faint))],
                 d \in get_random_center_shift(A, number_of_objects + 1,
                                               maxshift) }
    IN IF q_bright = <<>>
       THEN \* np.random.choice of an empty array raises
            {[ok |-> FALSE, val |-> "ValueError", number_of_objects |-> 0,
              shift_calls |-> <<>>, dx |-> <<>>, dy |-> <<>>]}
       ELSE UNION { draws(n, faint) :
                       n \in randint(0, A.max_number), faint \in BOOLEAN }

StampSizes == {24, 30}

InitBasic ==
    /\ \E max_number \in 1..MaxNumber, stamp_size \in StampSizes :
           Args = ArgsOf(<<"c", ".", "f", "i", "t", "s">>, FALSE, max_number,
                         stamp_size, 8)
    /\ file = [format |-> "fits", rows |-> <<>>]
    /\ wld_catalog = <<>>
    /\ catalog \in Catalogs
    /\ pc = "start"
    /\ call = NoCall
    /\ ret = NoRet
    /\ shift_calls = <<>>
    /\ meas_generator = NoGenerator
    /\ blend_list = <<>>
    /\ pool = NoPool

BasicSampling ==
    /\ pc = "start"
    /\ \E out \in basic_sampling_function(Args, catalog) :
          /\ call' = [name |-> "basic_sampling_function",
                      number_of_objects |-> out.number_of_objects,
                      dx |-> out.dx, dy |-> out.dy]
          /\ ret' = [ok |-> out.ok, val |-> out.val]
          /\ shift_calls' = out.shift_calls
          /\ pc' = IF out.ok THEN "returned" ELSE "raised"
    /\ UNCHANGED <<Args, file, wld_catalog, catalog, blend_list, pool,
                   meas_generator>>

NextBasic == BasicSampling

SpecBasic == InitBasic /\ [][NextBasic]_vars

\* the same function with max_number up to MaxShiftNumber, on the catalogs of
\* one row
InitShift ==
    /\ \E max_number \in 1..MaxShiftNumber, stamp_size \in StampSizes :
           Args = ArgsOf(<<"c", ".", "f", "i", "t", "s">>, FALSE, max_number,
                         stamp_size, 8)
    /\ file = [format |-> "fits", rows |-> <<>>]
    /\ wld_catalog = <<>>
    /\ catalog \in {c \in Catalogs : Len(c) = 1}
    /\ pc = "start"
    /\ call = NoCall
    /\ ret = NoRet
    /\ shift_calls = <<>>
    /\ meas_generator = NoGenerator
    /\ blend_list = <<>>
    /\ pool = NoPool

SpecShift == InitShift /\ [][NextBasic]_vars

(***************************************************************************)
(* Claims on basic_sampling_function.                                      *)
(***************************************************************************)
\* C6: every row of the blend catalog returned by basic_sampling_function is
\* an entry of the input catalog with i_ab <= 25.3, for every outcome of the
\* random draws.
C6_BrighterThan253 ==
    (pc = "returned" /\ call.name = "basic_sampling_function") =>
        \A k \in DOMAIN ret.val :
            /\ ret.val[k].i_ab <= 253
            /\ \E j \in DOMAIN catalog :
                   [ret.val[k] EXCEPT !.ra = catalog[j].ra,
                                      !.dec = catalog[j].dec] = catalog[j]

C7_bright(row) ==
    /\ row.i_ab <= 240
    /\ row.a_d * row.a_d + row.a_b * row.a_b > 4
    /\ row.a_d * row.a_d + row.a_b * row.a_b <= 400

\* C7: whenever the input catalog holds a bright galaxy (i_ab <= 24) whose
\* size hypot(a_d, a_b) lies in (0.2, 2], basic_sampling_function returns a
\* blend catalog that contains at least one such galaxy.
C7_BrightGalaxy ==
    (/\ call.name = "basic_sampling_function"
     /\ \E j \in DOMAIN catalog : C7_bright(catalog[j]))
    => /\ pc = "returned"
       /\ \E k \in DOMAIN ret.val : C7_bright(ret.val[k])

\* a blend of two rows drawn from a catalog that also holds a galaxy fainter
\* than 24 mag
C7_Witness ==
    /\ pc = "returned"
    /\ call.name = "basic_sampling_function"
    /\ Len(ret.val) = 2
    /\ ~ C7_bright(ret.val[2])
    /\ C7_bright(ret.val[1])

\* C8: the maximum shift passed to get_random_center_shift by
\* basic_sampling_function never exceeds Args.stamp_size/5, for every value
\* of Args.max_number and every drawn number of objects.
C8_MaxShiftWithinFifth ==
    call.name = "basic_sampling_function" =>
        \A k \in DOMAIN shift_calls :
            NumAbsLeq(shift_calls[k].maxshift, Rat(Args.stamp_size, 5))

\* C14: basic_sampling_function returns a blend catalog of exactly
\* number_of_objects + 1 rows, number_of_objects being drawn from
\* 0 .. Args.max_number - 1, so the blend holds between 1 and Args.max_number
\* galaxies; exactly that many centre shifts are requested from
\* get_random_center_shift, and every row has ra and dec equal to its shift
\* (the ra and dec of the catalog are overwritten with 0 before the shift is
\* added).
C14_RowsAndShifts ==
    (pc = "returned" /\ call.name = "basic_sampling_function") =>
        /\ call.number_of_objects \in 0..(Args.max_number - 1)
        /\ Len(ret.val) = call.number_of_objects + 1
        /\ Len(ret.val) \in 1..Args.max_number
        /\ Len(shift_calls) = 1
        /\ shift_calls[1].number = Len(ret.val)
        /\ Len(call.dx) = Len(ret.val)
        /\ Len(call.dy) = Len(ret.val)
        /\ \A k \in DOMAIN ret.val :
               /\ ret.val[k].ra = call.dx[k]
               /\ ret.val[k].dec = call.dy[k]

\* a blend of Args.max_number = 2 galaxies with two different shifts, its
\* second galaxy away from the origin in the catalog
C14_Witness ==
    /\ pc = "returned"
    /\ call.name = "basic_sampling_function"
    /\ Args.max_number = 2
    /\ call.number_of_objects = 1
    /\ Len(ret.val) = 2
    /\ ret.val[1].ra # ret.val[2].ra
    /\ ret.val[2].ra # Zero
    /\ \E j \in DOMAIN catalog :
           /\ catalog[j].galtileid = ret.val[2].galtileid
           /\ catalog[j].ra # Zero
           /\ catalog[j].ra # ret.val[2].ra

(***************************************************************************)
(* src/btk/utils.py: group_sampling_function                               *)
(***************************************************************************)
GroupIds == {1, 2}

\* the pre-run WLD catalogs: the first MaxWldRows galaxies of SampleRows, each
\* assigned to a group, grp_size being the number of galaxies of its group
WldCatalogs ==
    { [k \in 1..MaxWldRows |->
          [db_id |-> SampleRows[k].galtileid,
           grp_id |-> g[k],
           grp_size |-> Cardinality({j \in 1..MaxWldRows : g[j] = g[k]})]] :
      g \in [1..MaxWldRows -> GroupIds] }

\* np.unique(wld_catalog['grp_id'][wld_catalog['grp_size'] >= 2])
group_ids(wld) == {wld[k].grp_id : k \in {j \in DOMAIN wld : wld[j].grp_size >= 2}}

RECURSIVE vstack(_)
vstack(tables) ==
    IF tables = <<>> THEN <<>> ELSE Head(tables) \o vstack(Tail(tables))

\* vstack([catalog[catalog['galtileid'] == i] for i in ids]), ids being
\* wld_catalog['db_id'][wld_catalog['grp_id'] == group_id]
group_members(cat, wld, group_id) ==
    LET ids == take(wld, where(wld, LAMBDA w : w.grp_id = group_id, 1))
    IN vstack([k \in 1..Len(ids) |->
                  take(cat, where(cat, LAMBDA row : row.galtileid = ids[k].db_id, 1))])

RECURSIVE NumSum(_)
NumSum(xs) == IF xs = <<>> THEN Zero ELSE NumAdd(Head(xs), NumSum(Tail(xs)))

\* np.mean of a column
mean(xs) == NumDivInt(NumSum(xs), Len(xs))

\* ra -= mean(ra); ra *= 3600; ra += dx (and the same for dec)
recentre(blend_catalog, dx, dy) ==
    LET mean_ra == mean([k \in DOMAIN blend_catalog |-> blend_catalog[k].ra])
        mean_dec == mean([k \in DOMAIN blend_catalog |-> blend_catalog[k].dec])
    IN [k \in DOMAIN blend_catalog |->
           [blend_catalog[k] EXCEPT
               !.ra = NumAdd(NumMulInt(NumSub(@, mean_ra), 3600), dx),
               !.dec = NumAdd(NumMulInt(NumSub(@, mean_dec), 3600), dy)]]

\* cond1 & cond2 without the margin of 3
no_boundary_cond_mut(A, row) ==
    /\ NumAbsLess(row.ra, Rat(A.stamp_size, 2))
    /\ NumAbsLess(row.dec, Rat(A.stamp_size, 2))

\* cond1 & cond2, with np.abs(x) < Args.stamp_size / 2. - 3
no_boundary_cond(A, row) ==
    /\ NumAbsLess(row.ra, Rat(A.stamp_size - 6, 2))
    /\ NumAbsLess(row.dec, Rat(A.stamp_size - 6, 2))

\* np.random.choice(range(n), num) with replacement
select_choices_mut(n, num) == [1..num -> 1..n]

\* np.random.choice(range(n), num, replace=False): num distinct indices
select_choices(n, num) ==
    {sel \in [1..num -> 1..n] : \A i, j \in 1..num : sel[i] = sel[j] => i = j}

min(a, b) == IF a <= b THEN a ELSE b

GroupRaise(what) ==
    [ok |-> FALSE, val |-> what, shift_calls |-> <<>>, group_id |-> 0,
     dx |-> Zero, dy |-> Zero, blend_catalog |-> <<>>]

\* every outcome of group_sampling_function(Args, catalog), one per outcome
\* of the random draws
group_sampling_function(A, cat, wld) ==
    IF "wld_catalog_name" \notin DOMAIN A THEN {GroupRaise("Exception")}
    ELSE IF group_ids(wld) = {}
    THEN \* np.random.choice of an empty array raises
         {GroupRaise("ValueError")}
    ELSE LET maxshift == NumMulInt(A.pixel_scale, 3)
             outcome(group_id, d) ==
                 LET blend_catalog ==
                         recentre(group_members(cat, wld, group_id),
                                  d[1][1], d[2][1])
                     no_boundary ==
                         take(blend_catalog,
                              where(blend_catalog,
                                    LAMBDA row : no_boundary_cond(A, row), 1))
                     num == min(Len(no_boundary), A.max_number)
                     returned ==
                         IF Len(no_boundary) = 0 THEN {no_boundary}
                         ELSE {take(no_boundary, select) :
                                  select \in select_choices(Len(no_boundary), num)}
                 IN { [ok |-> TRUE, val |-> r,
                       shift_calls |-> << [number |-> 1, maxshift |-> maxshift] >>,
                       group_id |-> group_id, dx |-> d[1][1], dy |-> d[2][1],
                       blend_catalog |-> blend_catalog] : r \in returned }
         IN UNION { outcome(group_id, d) :
                       group_id \in group_ids(wld),
                       d \in get_random_center_shift(A, 1, maxshift) }

InitGroup ==
    /\ \E max_number \in 1..MaxNumber, stamp_size \in StampSizes,
          named \in BOOLEAN :
           LET A == ArgsOf(<<"c", ".", "f", "i", "t", "s">>, FALSE, max_number,
                           stamp_size, 8)
           IN Args = IF named
                     THEN [x \in DOMAIN A \cup {"wld_catalog_name"} |->
                              IF x \in DOMAIN A THEN A[x]
                              ELSE <<"w", ".", "f", "i", "t", "s">>]
                     ELSE A
    /\ file = [format |-> "fits", rows |-> <<>>]
    /\ wld_catalog \in WldCatalogs
    /\ catalog = SampleRows
    /\ pc = "start"
    /\ call = NoCall
    /\ ret = NoRet
    /\ shift_calls = <<>>
    /\ meas_generator = NoGenerator
    /\ blend_list = <<>>
    /\ pool = NoPool

GroupSampling ==
    /\ pc = "start"
    /\ \E out \in group_sampling_function(Args, catalog, wld_catalog) :
          /\ call' = [name |-> "group_sampling_function",
                      group_id |-> out.group_id,
                      dx |-> out.dx, dy |-> out.dy,
                      blend_catalog |-> out.blend_catalog]
          /\ ret' = [ok |-> out.ok, val |-> out.val]
          /\ shift_calls' = out.shift_calls
          /\ pc' = IF out.ok THEN "returned" ELSE "raised"
    /\ UNCHANGED <<Args, file, wld_catalog, catalog, blend_list, pool,
                   meas_generator>>

NextGroup == GroupSampling

SpecGroup == InitGroup /\ [][NextGroup]_vars

(***************************************************************************)
(* Claims on group_sampling_function.                                      *)
(***************************************************************************)
\* the galaxies of the chosen group as the input catalog holds them
C9_group_rows ==
    {row \in Range(catalog) :
        \E k \in DOMAIN wld_catalog :
            /\ wld_catalog[k].grp_id = call.group_id
            /\ wld_catalog[k].db_id = row.galtileid}

C9_inside(row) ==
    /\ NumAbsLess(row.ra, Rat(Args.stamp_size - 6, 2))
    /\ NumAbsLess(row.dec, Rat(Args.stamp_size - 6, 2))

\* position x of a group galaxy, re-centred on the mean of the group, in
\* arcsec, shifted by d
C9_position(x, xs, d) ==
    NumAdd(NumMulInt(NumSub(x, NumDivInt(NumSum(xs), Len(xs))), 3600), d)

\* C9: every row group_sampling_function returns is a galaxy of the chosen
\* group with |ra| < stamp_size/2 - 3 and |dec| < stamp_size/2 - 3 after
\* re-centring on the group mean, conversion to arcsec and the common random
\* shift; the returned catalog is empty when no galaxy of the group is inside.
C9_InsideStamp ==
    (pc = "returned" /\ call.name = "group_sampling_function") =>
        LET rows == SeqOfSet({row.galtileid : row \in C9_group_rows})
            orig(id) == CHOOSE row \in C9_group_rows : row.galtileid = id
            ras == [k \in DOMAIN rows |-> orig(rows[k]).ra]
            decs == [k \in DOMAIN rows |-> orig(rows[k]).dec]
            placed(row) ==
                [row EXCEPT !.ra = C9_position(@, ras, call.dx),
                            !.dec = C9_position(@, decs, call.dy)]
        IN /\ \A k \in DOMAIN ret.val :
                 /\ C9_inside(ret.val[k])
                 /\ \E row \in C9_group_rows : ret.val[k] = placed(row)
           /\ (\A row \in C9_group_rows : ~ C9_inside(placed(row)))
                 => ret.val = <<>>

\* part of the group lies outside the stamp and part of it is returned
C9_Witness ==
    /\ pc = "returned"
    /\ call.name = "group_sampling_function"
    /\ ret.val # <<>>
    /\ \E j \in DOMAIN call.blend_catalog : ~ C9_inside(call.blend_catalog[j])
    /\ \E j \in DOMAIN call.blend_catalog :
          /\ C9_inside(call.blend_catalog[j])
          /\ call.blend_catalog[j].ra # Zero

C10_inside ==
    {call.blend_catalog[j] :
        j \in {i \in DOMAIN call.blend_catalog : C9_inside(call.blend_catalog[i])}}

\* C10: the blend catalog group_sampling_function returns never holds more
\* than Args.max_number galaxies: when more than max_number galaxies of the
\* group lie inside the stamp exactly max_number distinct ones are returned,
\* and otherwise all of them are.
C10_AtMostMaxNumber ==
    (pc = "returned" /\ call.name = "group_sampling_function") =>
        /\ Len(ret.val) <= Args.max_number
        /\ \A i, j \in DOMAIN ret.val : ret.val[i] = ret.val[j] => i = j
        /\ Range(ret.val) \subseteq C10_inside
        /\ IF Cardinality(C10_inside) > Args.max_number
           THEN Len(ret.val) = Args.max_number
           ELSE Range(ret.val) = C10_inside

C10_Witness ==
    /\ pc = "returned"
    /\ call.name = "group_sampling_function"
    /\ Args.max_number = 2
    /\ Cardinality(C10_inside) > 2
    /\ Len(ret.val) = 2

(***************************************************************************)
(* btk.create_blend_generator.generate and btk.draw_blends.generate, as    *)
(* src/tests/test_draw.py drives them: the blend generator calls the       *)
(* sampling function batch_size times and yields the list; the draw        *)
(* generator renders each blend catalog of the list and yields the list    *)
(* with the images.                                                        *)
(***************************************************************************)
SamplingFunctions == {"basic_sampling_function", "group_sampling_function"}

\* the values of Args.batch_size (8 by default, 16 in test_multi_processing)
BatchSizes == {1, 2}

sampling_function(name, A, cat, wld) ==
    IF name = "basic_sampling_function" THEN basic_sampling_function(A, cat)
    ELSE group_sampling_function(A, cat, wld)

\* the image of one galaxy drawn alone: its flux at its centre
isolated_image(row) == [flux |-> 300 - row.i_ab, x |-> row.ra, y |-> row.dec]

RECURSIVE total_flux(_)
total_flux(images) ==
    IF images = <<>> THEN 0 ELSE Head(images).flux + total_flux(Tail(images))

\* the images of one blend: every galaxy alone, and their sum plus the noise
draw_blend(blend_catalog, noise) ==
    LET isolated == [k \in DOMAIN blend_catalog |-> isolated_image(blend_catalog[k])]
    IN [isolated_images |-> isolated,
        blend_image |-> [flux |-> total_flux(isolated) + noise,
                         centres |-> {<<im.x, im.y>> : im \in Range(isolated)}]]

\* the noise one rendering adds
Noise(add_noise) == IF add_noise THEN {0, 1} ELSE {0}

\* the output of the draw generator for a batch rendered as `images`
draw_output(batch, images) ==
    [blend_list |-> batch,
     blend_images |-> [k \in DOMAIN images |-> images[k].blend_image],
     isolated_images |-> [k \in DOMAIN images |-> images[k].isolated_images]]

WithWld(A) ==
    [x \in DOMAIN A \cup {"wld_catalog_name"} |->
        IF x \in DOMAIN A THEN A[x] ELSE <<"w", ".", "f", "i", "t", "s">>]

InitBatch ==
    /\ \E max_number \in 1..MaxNumber, batch_size \in BatchSizes :
           Args = WithWld(ArgsOf(<<"c", ".", "f", "i", "t", "s">>, FALSE,
                                 max_number, 24, batch_size))
    /\ file = [format |-> "fits", rows |-> <<>>]
    /\ \E f \in SamplingFunctions :
          /\ call = [name |-> "generate", sampling_function |-> f]
          /\ IF f = "basic_sampling_function"
             THEN catalog \in {c \in Catalogs : Len(c) = 1} /\ wld_catalog = <<>>
             ELSE catalog = SampleRows /\ wld_catalog \in WldCatalogs
    /\ pc = "start"
    /\ ret = NoRet
    /\ shift_calls = <<>>
    /\ meas_generator = NoGenerator
    /\ blend_list = <<>>
    /\ pool = NoPool

\* one pass of the blend generator's loop: blend_catalogs.append(
\* sampling_function(Args, catalog))
SampleBlend ==
    /\ pc = "start"
    /\ Len(blend_list) < Args.batch_size
    /\ \E out \in sampling_function(call.sampling_function, Args, catalog,
                                    wld_catalog) :
          /\ blend_list' = IF out.ok THEN Append(blend_list, out.val)
                           ELSE blend_list
          /\ ret' = IF out.ok THEN ret ELSE [ok |-> FALSE, val |-> out.val]
          /\ pc' = IF out.ok THEN pc ELSE "raised"
          /\ shift_calls' = out.shift_calls
    /\ UNCHANGED <<Args, file, wld_catalog, catalog, call, pool,
                   meas_generator>>

\* next(draw_generator): the full batch is rendered, one blend after the
\* other, and yielded
DrawBatch ==
    /\ pc = "start"
    /\ Len(blend_list) = Args.batch_size
    /\ ret' = [ok |-> TRUE,
               val |-> draw_output(blend_list,
                                   [k \in DOMAIN blend_list |->
                                       draw_blend(blend_list[k], 0)])]
    /\ pc' = "yielded"
    /\ UNCHANGED <<Args, file, wld_catalog, catalog, call, shift_calls,
                   blend_list, pool, meas_generator>>

NextBatch == SampleBlend \/ DrawBatch

SpecBatch == InitBatch /\ [][NextBatch]_vars

\* C4: each batch the draw generator yields contains exactly batch_size blend
\* catalogs, and every blend catalog of the batch holds at most max_number
\* galaxies.
C4_BatchShape ==
    pc = "yielded" =>
        /\ Len(ret.val.blend_list) = Args.batch_size
        /\ \A k \in DOMAIN ret.val.blend_list :
               Len(ret.val.blend_list[k]) <= Args.max_number

\* a batch of two blends, one of them of max_number = 2 galaxies
C4_Witness ==
    /\ pc = "yielded"
    /\ Args.batch_size = 2
    /\ Args.max_number = 2
    /\ Len(ret.val.blend_list) = 2
    /\ Len(ret.val.blend_list[1]) = 2
    /\ Len(ret.val.blend_list[2]) = 1

(***************************************************************************)
(* src/tests/test_draw.py: test_multi_processing.  The same batch (same     *)
(* seed, catalog and parameters) is rendered once by the pool of worker    *)
(* processes and once serially, and the two outputs are compared.          *)
(***************************************************************************)
\* blend catalogs a batch is made of
DrawBlends ==
    { basic_blend(SampleRows, 1, <<>>, <<Zero>>, <<Zero>>),
      basic_blend(SampleRows, 1, <<2>>, <<Rat(-4, 5), Rat(2, 5)>>,
                  <<Rat(2, 5), Rat(2, 5)>>),
      basic_blend(SampleRows, 5, <<3>>, <<Rat(2, 5), Rat(-4, 5)>>,
                  <<Rat(-4, 5), Rat(-4, 5)>>) }

NoImage == [isolated_images |-> <<>>, blend_image |-> "none"]

InitDraw ==
    /\ \E add_noise \in BOOLEAN, cpus \in 1..MaxCpus :
          /\ Args = ArgsOf(<<"c", ".", "f", "i", "t", "s">>, FALSE, 2, 24,
                           MaxBatch)
          /\ pool = [cpus |-> cpus, add_noise |-> add_noise,
                     queue |-> [k \in 1..MaxBatch |-> k],
                     running |-> [w \in 1..cpus |-> 0],
                     results |-> [k \in 1..MaxBatch |-> NoImage],
                     order |-> <<>>,
                     serial |-> <<>>,
                     tasks |-> <<>>]
    /\ blend_list \in [1..MaxBatch -> DrawBlends]
    /\ file = [format |-> "fits", rows |-> <<>>]
    /\ wld_catalog = <<>>
    /\ catalog = SampleRows
    /\ pc = "parallel"
    /\ call = [name |-> "test_multi_processing"]
    /\ ret = NoRet
    /\ shift_calls = <<>>
    /\ meas_generator = NoGenerator

\* an idle worker takes the next task of the queue
TakeTask(w) ==
    /\ pc = "parallel"
    /\ pool.running[w] = 0
    /\ pool.queue # <<>>
    /\ pool' = [pool EXCEPT !.running[w] = Head(pool.queue),
                            !.queue = Tail(pool.queue)]
    /\ UNCHANGED <<Args, file, wld_catalog, catalog, pc, call, ret,
                   shift_calls, blend_list, meas_generator>>

\* a worker finishes its task: the blend is rendered and its images stored
\* under the index of the task
FinishTask(w) ==
    /\ pc = "parallel"
    /\ pool.running[w] # 0
    /\ \E noise \in Noise(pool.add_noise) :
          pool' = [pool EXCEPT
                      !.results[pool.running[w]] =
                          draw_blend(blend_list[pool.running[w]], noise),
                      !.order = Append(@, pool.running[w]),
                      !.running[w] = 0]
    /\ UNCHANGED <<Args, file, wld_catalog, catalog, pc, call, ret,
                   shift_calls, blend_list, meas_generator>>

\* the results of the map, in the order the results were finished
gather_mut(p) == [k \in DOMAIN p.order |-> p.results[p.order[k]]]

\* the results of the map, in the order of the tasks
gather(p) == [k \in DOMAIN p.results |-> p.results[k]]

\* the parallel generator yields once every task is done
YieldParallel ==
    /\ pc = "parallel"
    /\ pool.queue = <<>>
    /\ \A w \in DOMAIN pool.running : pool.running[w] = 0
    /\ pool' = [pool EXCEPT !.tasks = gather(pool)]
    /\ pc' = "serial"
    /\ UNCHANGED <<Args, file, wld_catalog, catalog, call, ret, shift_calls,
                   blend_list, meas_generator>>

\* the serial generator renders the next blend of the batch
SerialDraw ==
    /\ pc = "serial"
    /\ Len(pool.serial) < Len(blend_list)
    /\ \E noise \in Noise(pool.add_noise) :
          pool' = [pool EXCEPT
                      !.serial = Append(@, draw_blend(
                                     blend_list[Len(pool.serial) + 1], noise))]
    /\ UNCHANGED <<Args, file, wld_catalog, catalog, pc, call, ret,
                   shift_calls, blend_list, meas_generator>>

\* both outputs are at hand
YieldSerial ==
    /\ pc = "serial"
    /\ Len(pool.serial) = Len(blend_list)
    /\ ret' = [ok |-> TRUE,
               val |-> [parallel_im |-> draw_output(blend_list, pool.tasks),
                        serial_im |-> draw_output(blend_list, pool.serial)]]
    /\ pc' = "done"
    /\ UNCHANGED <<Args, file, wld_catalog, catalog, call, shift_calls,
                   blend_list, pool, meas_generator>>

NextDraw ==
    \/ \E w \in 1..MaxCpus : w \in DOMAIN pool.running /\ TakeTask(w)
    \/ \E w \in 1..MaxCpus : w \in DOMAIN pool.running /\ FinishTask(w)
    \/ YieldParallel
    \/ SerialDraw
    \/ YieldSerial

SpecDraw == InitDraw /\ [][NextDraw]_vars

\* C3: with noise disabled, the batch the draw generator yields when run over
\* the pool of worker processes has blend images and isolated images equal,
\* element for element and in the same order, to the batch of the serial run.
C3_ParallelEqualsSerial ==
    (pc = "done" /\ ~ pool.add_noise) =>
        /\ ret.val.parallel_im.blend_images = ret.val.serial_im.blend_images
        /\ ret.val.parallel_im.isolated_images
               = ret.val.serial_im.isolated_images

\* two workers finished the tasks in the reverse order, on different blends
C3_Witness ==
    /\ pc = "done"
    /\ ~ pool.add_noise
    /\ pool.cpus >= 2
    /\ pool.order[1] = 2
    /\ blend_list[1] # blend_list[2]

(***************************************************************************)
(* src/btk/utils.py: the measurement classes SEP_params, Stack_params,     *)
(* Scarlet_params and Basic_measure_params.  A call of a method is         *)
(* resolved in the class itself; a method the class does not define is     *)
(* left to its base class measure.Measurement_params.                      *)
(***************************************************************************)
Adapters ==
    {"SEP_params", "Stack_params", "Scarlet_params", "Basic_measure_params"}

ContractMethods == {"get_centers", "get_deblended_images", "make_measurement"}

\* the methods each class defines, Stack_params without its stub of
\* get_deblended_images
class_methods_mut(cls) ==
    CASE cls = "SEP_params" -> {"get_centers", "get_deblended_images"}
      [] cls = "Stack_params" -> {"get_psf_sky", "make_measurement"}
      [] cls = "Scarlet_params" ->
             {"make_measurement", "get_centers", "scarlet_initialize",
              "get_deblended_images"}
      [] cls = "Basic_measure_params" -> {"get_centers", "get_deblended_images"}

\* the methods each class defines
class_methods(cls) ==
    CASE cls = "SEP_params" -> {"get_centers", "get_deblended_images"}
      [] cls = "Stack_params" ->
             {"get_psf_sky", "make_measurement", "get_deblended_images"}
      [] cls = "Scarlet_params" ->
             {"make_measurement", "get_centers", "scarlet_initialize",
              "get_deblended_images"}
      [] cls = "Basic_measure_params" -> {"get_centers", "get_deblended_images"}

\* the centres the detection library reports on a blend: any number of its
\* galaxies, in catalog order
Detections(blend_catalog) ==
    { [k \in 1..n |-> <<blend_catalog[k].ra, blend_catalog[k].dec>>] :
        n \in 0..Len(blend_catalog) }

\* a numpy array of shape [N, 2] and a Python list of N lists [x, y]
np_array(rows) == [type |-> "ndarray", data |-> rows]
py_list(rows) == [type |-> "list", data |-> rows]

\* Python's None
None == [type |-> "NoneType"]

\* what cls.method returns on blend `index` of the batch, the detection
\* library reporting `centers`: get_centers stacks the centres into an array,
\* Scarlet_params.get_deblended_images appends them to the list
\* selected_peaks
method_result(cls, method, data, index, centers) ==
    CASE method = "get_centers" -> np_array(centers)
      [] method = "get_deblended_images" /\ cls = "Stack_params" -> None
      [] method = "get_deblended_images" /\ cls = "Scarlet_params" ->
             [type |-> "dict",
              deblend_image |-> [m \in DOMAIN centers |-> centers[m]],
              peaks |-> py_list(centers)]
      [] method = "get_deblended_images" ->
             [type |-> "dict", deblend_image |-> None,
              peaks |-> np_array(centers)]
      [] method = "make_measurement" /\ cls = "Scarlet_params" -> None
      [] method = "make_measurement" ->
             [type |-> "Table",
              rows |-> [m \in DOMAIN centers |->
                           [base_NaiveCentroid_x |-> centers[m][1],
                            base_NaiveCentroid_y |-> centers[m][2],
                            deblend_nChild |-> 0]]]

\* cls().method(...): resolved in the class when the class defines it
call_method(cls, method, data, index, centers) ==
    IF method \in class_methods(cls)
    THEN [ok |-> TRUE, val |-> method_result(cls, method, data, index, centers)]
    ELSE [ok |-> FALSE,
          val |-> [type |-> "inherited", from |-> "measure.Measurement_params"]]

InitAdapters ==
    /\ Args = ArgsOf(<<"c", ".", "f", "i", "t", "s">>, FALSE, 2, 24, MaxBatch)
    /\ blend_list \in [1..MaxBatch -> DrawBlends]
    /\ file = [format |-> "fits", rows |-> <<>>]
    /\ wld_catalog = <<>>
    /\ catalog = SampleRows
    /\ pc = "start"
    /\ call = NoCall
    /\ ret = NoRet
    /\ shift_calls = <<>>
    /\ meas_generator = NoGenerator
    /\ pool = NoPool

CallMethod ==
    /\ pc = "start"
    /\ \E cls \in Adapters, method \in ContractMethods,
          index \in DOMAIN blend_list :
          \E centers \in Detections(blend_list[index]) :
             /\ call' = [name |-> method, cls |-> cls, index |-> index]
             /\ ret' = call_method(cls, method, blend_list, index, centers)
    /\ pc' = IF ret'.ok THEN "returned" ELSE "inherited"
    /\ UNCHANGED <<Args, file, wld_catalog, catalog, shift_calls, blend_list,
                   pool, meas_generator>>

NextAdapters == CallMethod

SpecAdapters == InitAdapters /\ [][NextAdapters]_vars

\* C2: every measurement class defines the same contract: a get_centers
\* operation and a get_deblended_images/make_measurement operation.
C2_UniformContract ==
    call.name \in {"get_centers", "get_deblended_images"} => ret.ok

\* C2, amended: every measurement class defines get_deblended_images;
\* SEP_params, Scarlet_params and Basic_measure_params define get_centers and
\* Stack_params does not, defining make_measurement instead.
C2_Amended ==
    /\ call.name = "get_deblended_images" => ret.ok
    /\ call.name = "get_centers" => (ret.ok <=> call.cls # "Stack_params")
    /\ (call.name = "make_measurement" /\ call.cls = "Stack_params") => ret.ok

C2_Witness ==
    /\ call.name = "get_centers"
    /\ call.cls = "Stack_params"
    /\ pc = "inherited"

(***************************************************************************)
(* src/btk/utils.py: Basic_metric_params.get_detections and                *)
(* Stack_metric_params.get_detections.                                     *)
(*                                                                         *)
(* self.meas_generator yields, batch after batch, the output of the draw   *)
(* generator, the result of get_deblended_images on every blend and the    *)
(* result of make_measurement on every blend, for the measurement class    *)
(* the generator was built with.  The generator is the sequence of the     *)
(* batches it will yield and the number of batches taken from it.          *)
(***************************************************************************)
MetricClasses == {"Basic_metric_params", "Stack_metric_params"}

\* the measurement classes whose result read by the metric class is given
\* by the source: get_deblended_images is defined by every class,
\* make_measurement by Stack_params and Scarlet_params
MeasurementClasses(metric) ==
    IF metric = "Basic_metric_params"
    THEN {cls \in Adapters : "get_deblended_images" \in class_methods(cls)}
    ELSE {cls \in Adapters : "make_measurement" \in class_methods(cls)}

\* blend catalogs of one and of two galaxies
MeasBlends ==
    { basic_blend(SampleRows, 1, <<>>, <<Zero>>, <<Zero>>),
      basic_blend(SampleRows, 1, <<2>>, <<Rat(-4, 5), Rat(2, 5)>>,
                  <<Rat(-4, 5), Rat(-4, 5)>>) }

\* one batch as the generator yields it, the detection library reporting
\* centers[i] on blend i
meas_batch(cls, batch, centers) ==
    [blend_op |-> [blend_list |-> batch],
     deblend_op |->
         [i \in DOMAIN batch |->
             call_method(cls, "get_deblended_images", batch, i,
                         centers[i]).val],
     cat |->
         [i \in DOMAIN batch |->
             call_method(cls, "make_measurement", batch, i, centers[i]).val],
     centers |-> centers]

\* the batches a generator built with cls can yield
MeasBatches(cls, batch_size) ==
    UNION { { meas_batch(cls, batch, centers) :
                centers \in {c \in [1..batch_size ->
                                      UNION {Detections(b) : b \in MeasBlends}] :
                                \A i \in 1..batch_size :
                                    c[i] \in Detections(batch[i])} } :
            batch \in [1..batch_size -> MeasBlends] }

\* next that leaves the generator where it was
next_mut(gen) ==
    [val |-> gen.batches[gen.pos + 1], gen |-> gen]

\* next(self.meas_generator): the batch yielded and the generator afterwards
next(gen) ==
    [val |-> gen.batches[gen.pos + 1],
     gen |-> [gen EXCEPT !.pos = gen.pos + 1]]

\* astropy.table.Table(data, names=names).  A 2-d array gives one column
\* per array column; a list gives one column per element of the list.  The
\* number of columns must be the number of names.
Table(data, names) ==
    LET n_cols == IF data.type = "ndarray" THEN 2 ELSE Len(data.data)
        n_rows == IF data.type = "ndarray" THEN Len(data.data)
                  ELSE Len(data.data[1])
        col(c) == CHOOSE k \in DOMAIN names : names[k] = c
        cell(r, k) == IF data.type = "ndarray" THEN data.data[r][k]
                      ELSE data.data[k][r]
    IN IF n_cols # Len(names)
       THEN [ok |-> FALSE, val |-> "ValueError"]
       ELSE [ok |-> TRUE,
             val |-> [r \in 1..n_rows |->
                         [c \in Range(names) |-> cell(r, col(c))]]]

\* detected_centers of blend i: deblend_op[i]['peaks'] in
\* Basic_metric_params, np.stack of the two centroid columns of cat[i] in
\* Stack_metric_params; subscripting None raises TypeError
detected_centers(metric, output, i) ==
    IF metric = "Basic_metric_params"
    THEN IF output.deblend_op[i].type = "NoneType"
         THEN [ok |-> FALSE, val |-> "TypeError"]
         ELSE [ok |-> TRUE, val |-> output.deblend_op[i].peaks]
    ELSE IF output.cat[i].type = "NoneType"
         THEN [ok |-> FALSE, val |-> "TypeError"]
         ELSE [ok |-> TRUE,
               val |-> np_array([m \in DOMAIN output.cat[i].rows |->
                            <<output.cat[i].rows[m].base_NaiveCentroid_x,
                              output.cat[i].rows[m].base_NaiveCentroid_y>>])]

\* the body of the loop for blend i
detected_table(metric, output, i) ==
    LET centers == detected_centers(metric, output, i)
    IN IF centers.ok THEN Table(centers.val, <<"dx", "dy">>) ELSE centers

\* get_detections(self): what it returns or raises, and the generator
\* afterwards
get_detections(metric, gen) ==
    LET nxt == next(gen)
        true_tables == nxt.val.blend_op.blend_list
        tables == [i \in DOMAIN true_tables |->
                      detected_table(metric, nxt.val, i)]
        failed == {i \in DOMAIN tables : ~ tables[i].ok}
    IN IF failed = {}
       THEN [ok |-> TRUE,
             val |-> <<true_tables, [i \in DOMAIN tables |-> tables[i].val]>>,
             gen |-> nxt.gen]
       ELSE [ok |-> FALSE,
             val |-> tables[CHOOSE i \in failed : \A k \in failed : i <= k].val,
             gen |-> nxt.gen]

InitDetections ==
    /\ \E metric \in MetricClasses, batch_size \in BatchSizes :
         \E cls \in MeasurementClasses(metric) :
          /\ Args = ArgsOf(<<"c", ".", "f", "i", "t", "s">>, FALSE, 2, 24,
                           batch_size)
          /\ call = [name |-> "Metrics_params", cls |-> metric,
                     measurement |-> cls, number |-> 0]
          /\ meas_generator \in
                 [batches : [1..MaxMeasBatches -> MeasBatches(cls, batch_size)],
                  pos : {0}]
    /\ file = [format |-> "fits", rows |-> <<>>]
    /\ wld_catalog = <<>>
    /\ catalog = SampleRows
    /\ pc = "start"
    /\ ret = NoRet
    /\ shift_calls = <<>>
    /\ blend_list = <<>>
    /\ pool = NoPool

\* one call of get_detections, as long as the generator has a batch to yield
GetDetections ==
    /\ pc \in {"start", "returned", "raised"}
    /\ meas_generator.pos < Len(meas_generator.batches)
    /\ LET out == get_detections(call.cls, meas_generator)
       IN /\ ret' = [ok |-> out.ok, val |-> out.val]
          /\ meas_generator' = out.gen
          /\ pc' = IF out.ok THEN "returned" ELSE "raised"
    /\ call' = [call EXCEPT !.name = "get_detections",
                            !.number = call.number + 1]
    /\ UNCHANGED <<Args, file, wld_catalog, catalog, shift_calls, blend_list,
                   pool>>

NextDetections == GetDetections

SpecDetections == InitDetections /\ [][NextDetections]_vars

\* the table of the detections `centers`: one row per detection, x under
\* 'dx' and y under 'dy'
C12_table(centers) ==
    [k \in DOMAIN centers |-> [dx |-> centers[k][1], dy |-> centers[k][2]]]

\* the call returned the batch `output`: its blend catalogs and, for every
\* blend, the table of its detections
C12_returned(output) ==
    /\ pc = "returned"
    /\ ret.val[1] = output.blend_op.blend_list
    /\ Len(ret.val[1]) = Args.batch_size
    /\ Len(ret.val[2]) = Args.batch_size
    /\ \A i \in 1..Args.batch_size :
           ret.val[2][i] = C12_table(output.centers[i])

C12_array_centers ==
    \/ /\ call.cls = "Basic_metric_params"
       /\ call.measurement \in {"SEP_params", "Basic_measure_params"}
    \/ /\ call.cls = "Stack_metric_params"
       /\ call.measurement = "Stack_params"

\* the generators whose batches hold None where the metric class reads
C12_none ==
    \/ /\ call.cls = "Basic_metric_params"
       /\ call.measurement = "Stack_params"
    \/ /\ call.cls = "Stack_metric_params"
       /\ call.measurement = "Scarlet_params"

TrueCounts == 0..3     \* values of column 0 of a summary row
DetCounts == 0..4      \* values of column 1 of a summary row
EffNums == 0..2        \* values of the argument num

SummaryTables ==
    UNION {[1..n -> TrueCounts \X DetCounts] : n \in 0..MaxSummaryRows}

\* q_true, = np.where(summary_table[:, 0] == i)
q_true(summary_table, i) ==
    {k \in DOMAIN summary_table : summary_table[k][1] = i}

\* q_det, = np.where(summary_table[q_true, 1] == j)
q_det(summary_table, qt, j) == {k \in qt : summary_table[k][2] = j}

\* eff_matrix after the two loops: np.zeros((num + 2, num + 1)) with
\* eff_matrix[j, i] = len(q_det) where len(q_true) > 0
eff_counts(summary_table, num) ==
    [j \in 0..(num + 1) |->
        [i \in 0..num |->
            LET qt == q_true(summary_table, i)
            IN IF Cardinality(qt) > 0
               THEN Cardinality(q_det(summary_table, qt, j))
               ELSE 0]]

RECURSIVE column_sum(_, _, _)
\* np.sum(eff_matrix, axis=0)[i], adding the rows j, j-1, ..., 0
column_sum(matrix, i, j) ==
    IF j < 0 THEN 0 ELSE matrix[j][i] + column_sum(matrix, i, j - 1)

\* norm summed over the rows 0..num, leaving the last row out
norm_mut(counts, num) ==
    [i \in 0..num |->
        LET s == column_sum(counts, i, num)
        IN IF s = 0 THEN 1 ELSE s]

\* norm = np.sum(eff_matrix, axis=0); norm[norm == 0.] = 1
norm(counts, num) ==
    [i \in 0..num |->
        LET s == column_sum(counts, i, num + 1)
        IN IF s = 0 THEN 1 ELSE s]

\* eff_matrix / norm[np.newaxis, :] * 100.
get_detection_eff_matrix(summary_table, num) ==
    LET counts == eff_counts(summary_table, num)
        nrm == norm(counts, num)
    IN [j \in 0..(num + 1) |->
           [i \in 0..num |-> Rat(counts[j][i] * 100, nrm[i])]]

\* numpy.ndarray.shape of a matrix with at least one row
shape(matrix) ==
    <<Cardinality(DOMAIN matrix), Cardinality(DOMAIN matrix[0])>>

InitEff ==
    /\ Args = ArgsOf(<<"c", ".", "f", "i", "t", "s">>, FALSE, 2, 24, 8)
    /\ file = [format |-> "fits", rows |-> <<>>]
    /\ wld_catalog = <<>>
    /\ catalog = <<>>
    /\ pc = "start"
    /\ call = NoCall
    /\ ret = NoRet
    /\ shift_calls = <<>>
    /\ meas_generator = NoGenerator
    /\ blend_list = <<>>
    /\ pool = NoPool

GetDetectionEffMatrix ==
    /\ pc = "start"
    /\ \E summary_table \in SummaryTables, num \in EffNums :
          /\ call' = [name |-> "get_detection_eff_matrix",
                      summary_table |-> summary_table, num |-> num]
          /\ ret' = [ok |-> TRUE,
                     val |-> get_detection_eff_matrix(summary_table, num)]
    /\ pc' = "returned"
    /\ UNCHANGED <<Args, file, wld_catalog, catalog, shift_calls, blend_list,
                   pool, meas_generator>>

NextEff == GetDetectionEffMatrix

SpecEff == InitEff /\ [][NextEff]_vars

\* C11: get_detection_eff_matrix(summary_table, num) returns a matrix with
\* num + 2 rows and num - 1 columns.
C11_Shape ==
    (pc = "returned" /\ call.name = "get_detection_eff_matrix") =>
        shape(ret.val) = <<call.num + 2, call.num - 1>>

\* the summary rows with i true objects, and those among them with j
\* detections
C13_rows(i) ==
    {k \in DOMAIN call.summary_table : call.summary_table[k][1] = i}

C13_rows_det(i, j) == {k \in C13_rows(i) : call.summary_table[k][2] = j}

RECURSIVE C13_sum(_, _)
\* the sum of column i of the returned matrix over the rows 0..j
C13_sum(i, j) ==
    IF j < 0 THEN Zero ELSE NumAdd(ret.val[j][i], C13_sum(i, j - 1))

\* C13: in the matrix returned by get_detection_eff_matrix, entry [j, i] is
\* 100 times the number of summary rows with i true objects and j detections
\* divided by the number of summary rows with i true objects; every column i
\* with at least one such row sums to 100 and every other column is all
\* zeros, also when some rows have more than num + 1 detections.
C13_ColumnsSumTo100 ==
    (pc = "returned" /\ call.name = "get_detection_eff_matrix") =>
        \A i \in 0..call.num :
            LET n == Cardinality(C13_rows(i))
            IN IF n = 0
               THEN \A j \in 0..(call.num + 1) : ret.val[j][i] = Zero
               ELSE /\ \A j \in 0..(call.num + 1) :
                          ret.val[j][i] =
                              Rat(100 * Cardinality(C13_rows_det(i, j)), n)
                    /\ C13_sum(i, call.num + 1) = Rat(100, 1)

\* the summary rows with i true objects that the matrix counts: those with
\* at most num + 1 detections
C13_counted(i) ==
    {k \in C13_rows(i) : call.summary_table[k][2] <= call.num + 1}

\* C13, amended: entry [j, i] is 100 times the number of summary rows with i
\* true objects and j detections divided by the number of summary rows with
\* i true objects and at most num + 1 detections; every column i with at
\* least one such row sums to 100 and every other column is all zeros.
C13_Amended ==
    (pc = "returned" /\ call.name = "get_detection_eff_matrix") =>
        \A i \in 0..call.num :
            LET n == Cardinality(C13_counted(i))
            IN IF n = 0
               THEN \A j \in 0..(call.num + 1) : ret.val[j][i] = Zero
               ELSE /\ \A j \in 0..(call.num + 1) :
                          ret.val[j][i] =
                              Rat(100 * Cardinality(C13_rows_det(i, j)), n)
                    /\ C13_sum(i, call.num + 1) = Rat(100, 1)

\* a column of three rows: two detection counts inside the matrix and one
\* beyond its last row
C13_Witness ==
    /\ pc = "returned"
    /\ call.name = "get_detection_eff_matrix"
    /\ \E i \in 0..call.num :
          /\ Cardinality(C13_rows(i)) = 3
          /\ Cardinality(C13_counted(i)) = 2
          /\ \E j \in 0..(call.num + 1) : ret.val[j][i] = Rat(50, 1)

====
